---- MODULE Spec2Model ----
(***************************************************************************)
(* A model of the brain2text data-preparation scripts:                     *)
(*   build_matrices.build_design_matrices   (windowing / binning loop)     *)
(*   filter_utils.filter_by_labels / filter_by_signals                     *)
(*   dl_utils.Brain2TextDataset                                            *)
(*   batch_submit (script generation and submission)                       *)
(*   tfs_pickling.create_label_pickles / main                              *)
(* Each script is a sequential program; its position is a pc variable and  *)
(* every value read from outside the modelled file (the file system, the   *)
(* helper modules utils / gram_utils / electrode_utils, sklearn) is an     *)
(* input drawn from a small set at the step that reads it.                 *)
(***************************************************************************)
EXTENDS Integers, Sequences, FiniteSets, TLC

(***************************************************************************)
(* Bounds of the model.                                                    *)
(***************************************************************************)
MaxConvs == 2
MaxGrams == 2
MaxExamples == 2
MaxBins == 2
MaxSamples == 4
MaxLabel == 2
MaxN == 3
MaxSeqLen == 2
MaxCalls == 2
MaxRows == 6
MaxStitch == 2
MaxSubList == 2
MaxEnd == 3
MaxSeq == 4
MaxWidth == 3
MaxToken == 2
MaxDf == 2
MaxShort == 2
MaxExtra == 2
MaxBatch == 2
MaxLabelLen == 2

(***************************************************************************)
(* Program constants.                                                      *)
(***************************************************************************)
ConvCap == 20
NSplits == 5
NUnpack == 9
WindowSize == 1024

VARIABLES
    \* build_matrices.build_design_matrices
    convs, ci, pc, ecogs, n_grams, gram, labels, signals, word_signal,
    made_by, dne, report,
    \* filter_utils
    f_signals, f_labels, f_arg, f_op, f_calls, f_before,
    \* dl_utils.Brain2TextDataset
    ds_signals, ds_labels, ds_pc, examples, item,
    \* batch_submit
    somelists, a, element, job_name_str, fh, files, submitted, count, b_pc,
    \* tfs_pickling.create_label_pickles
    folds, fold_i, folds_ixs, df, k_pc,
    \* tfs_pickling.main
    CONFIG_pickle, main_pc, pickles,
    \* tfs_pickling.adjust_label_onsets
    trimmed_stitch_index, label_lists, stitch_given, adj_k, new_labels,
    labels_df, adj_pc,
    \* tfs_gen_embeddings.window
    seq, n_width, it, result, yielded, w_pc,
    \* tfs_gen_embeddings.build_context_for_gpt2
    token_lists, conversation, token_list, sliding_windows, data_dl, batch_i,
    concat_output, extracted_embeddings, final_embeddings, g_pc,
    \* dl_utils.MyCollator
    pad_token, batch, src, labels_padded, trg, trg_y, pos_mask, pad_mask, c_pc

buildVars == <<convs, ci, pc, ecogs, n_grams, gram, labels, signals,
               word_signal, made_by, dne, report>>

filterVars == <<f_signals, f_labels, f_arg, f_op, f_calls, f_before>>

dsVars == <<ds_signals, ds_labels, ds_pc, examples, item>>

batchVars == <<somelists, a, element, job_name_str, fh, files, submitted,
               count, b_pc>>

foldVars == <<folds, fold_i, folds_ixs, df, k_pc>>

mainVars == <<CONFIG_pickle, main_pc, pickles>>

adjustVars == <<trimmed_stitch_index, label_lists, stitch_given, adj_k,
                new_labels, labels_df, adj_pc>>

\* The scripts and functions that no specification runs together with
\* another one.
windowVars == <<seq, n_width, it, result, yielded, w_pc>>

gptVars == <<token_lists, conversation, token_list, sliding_windows, data_dl,
             batch_i, concat_output, extracted_embeddings, final_embeddings,
             g_pc>>

collateVars == <<pad_token, batch, src, labels_padded, trg, trg_y, pos_mask,
                 pad_mask, c_pc>>

restVars == <<adjustVars, windowVars, gptVars, collateVars>>

vars == <<buildVars, filterVars, dsVars, batchVars, foldVars, mainVars,
          restVars>>

\* What each script leaves alone: the state of the others.
notBuild == <<filterVars, dsVars, batchVars, foldVars, mainVars,
              restVars>>

notFilter == <<buildVars, dsVars, batchVars, foldVars, mainVars,
               restVars>>

notDs == <<buildVars, filterVars, batchVars, foldVars, mainVars,
           restVars>>

notBatch == <<buildVars, filterVars, dsVars, foldVars, mainVars,
              restVars>>

notFold == <<buildVars, filterVars, dsVars, batchVars, mainVars,
             restVars>>

\* A script that is not run in a specification stays as it is here.
IdleFilter ==
    /\ f_signals = <<>> /\ f_labels = <<>> /\ f_arg = 0
    /\ f_op = "idle" /\ f_calls = 0 /\ f_before = <<>>

IdleDs ==
    /\ ds_signals = <<>> /\ ds_labels = <<>> /\ ds_pc = "idle"
    /\ examples = <<>> /\ item = <<>>

IdleBatch ==
    /\ somelists = <<>> /\ a = <<>> /\ element = <<>> /\ job_name_str = ""
    /\ fh = "" /\ files = <<>> /\ submitted = <<>> /\ count = 0
    /\ b_pc = "idle"

IdleFold ==
    /\ folds = <<>> /\ fold_i = 0 /\ folds_ixs = <<>> /\ df = <<>>
    /\ k_pc = "idle"

IdleMain ==
    /\ CONFIG_pickle = FALSE /\ main_pc = "idle" /\ pickles = <<>>

IdleAdjust ==
    /\ trimmed_stitch_index = <<>> /\ label_lists = <<>>
    /\ stitch_given = <<>> /\ adj_k = 0 /\ new_labels = <<>>
    /\ labels_df = <<>> /\ adj_pc = "idle"

IdleWindow ==
    /\ seq = <<>> /\ n_width = 0 /\ it = <<>> /\ result = <<>>
    /\ yielded = <<>> /\ w_pc = "idle"

IdleGpt ==
    /\ token_lists = <<>> /\ conversation = 0 /\ token_list = <<>>
    /\ sliding_windows = <<>> /\ data_dl = {} /\ batch_i = 0
    /\ concat_output = <<>> /\ extracted_embeddings = <<>>
    /\ final_embeddings = <<>> /\ g_pc = "idle"

IdleCollate ==
    /\ pad_token = "" /\ batch = <<>> /\ src = <<>> /\ labels_padded = <<>>
    /\ trg = <<>> /\ trg_y = <<>> /\ pos_mask = <<>> /\ pad_mask = <<>>
    /\ c_pc = "idle"

IdleRest == IdleAdjust /\ IdleWindow /\ IdleGpt /\ IdleCollate

(***************************************************************************)
(* Generic helpers.                                                        *)
(***************************************************************************)
Min(x, y) == IF x <= y THEN x ELSE y

Max(x, y) == IF x >= y THEN x ELSE y

RECURSIVE SumSeq(_)
SumSeq(s) == IF s = <<>> THEN 0 ELSE s[1] + SumSeq(Tail(s))

Last(s) == s[Len(s)]

(***************************************************************************)
(* CONFIG['max_electrodes']: one electrode count per subject.              *)
(***************************************************************************)
max_electrodes == <<1, 2>>

\* list(np.cumsum(CONFIG['max_electrodes'])) with 0 inserted in front;
\* Python index k is element k + 1 here.
cumsum_electrodes ==
    [k \in 1..(Len(max_electrodes) + 1) |->
        SumSeq(SubSeq(max_electrodes, 1, k - 1))]

(***************************************************************************)
(* numpy semantics used by build_design_matrices.                          *)
(***************************************************************************)
\* ary[start:stop] for a sequence of length n.
\* Negative indices count from the end, both ends are clamped to [0, n].
PySliceLo(n, start) ==
    IF start < 0 THEN Max(start + n, 0) ELSE Min(start, n)

PySlice(ary, start, stop) ==
    LET lo == PySliceLo(Len(ary), start)
        hi == PySliceLo(Len(ary), stop)
    IN  IF lo < hi THEN SubSeq(ary, lo + 1, hi) ELSE <<>>

\* np.array_split(ary, n, axis=0) for n > 0: the first Ntotal % n sections
\* have Ntotal // n + 1 rows, the others Ntotal // n rows.
\* Mutant: the Ntotal % n rows left over are dropped (equal sections only).
DivPoint_NoExtras(Ntotal, n, k) == k * (Ntotal \div n)

DivPoint(Ntotal, n, k) == k * (Ntotal \div n) + Min(k, Ntotal % n)

ArraySplit(ary, n) ==
    [k \in 1..n |->
        SubSeq(ary, DivPoint(Len(ary), n, k - 1) + 1,
                    DivPoint(Len(ary), n, k))]

\* A mean is kept exactly, as <<sum, count>>; <<0, 0>> is numpy's nan, the
\* mean of an empty piece.
RECURSIVE ColSum(_, _)
ColSum(f, c) == IF f = <<>> THEN 0 ELSE f[1][c] + ColSum(Tail(f), c)

\* f.mean(axis=0) of a piece with w columns.
MeanAxis0(f, w) == [c \in 1..w |-> <<ColSum(f, c), Len(f)>>]

Zero == <<0, 1>>

\* np.zeros((n, m), np.float32)
Zeros(n, m) == [i \in 1..n |-> [j \in 1..m |-> Zero]]

\* row[lo:hi] = v for a 1-d value v: numpy broadcasts a value of length 1
\* and refuses any other length that differs from the block's.
CanAssign(lo, hi, v) == Len(v) = hi - lo \/ Len(v) = 1

AssignBlock(row, lo, hi, v) ==
    [j \in 1..Len(row) |->
        IF lo < j /\ j <= hi
        THEN (IF Len(v) = 1 THEN v[1] ELSE v[j - lo])
        ELSE row[j]]

(***************************************************************************)
(* Inputs of build_design_matrices.                                        *)
(***************************************************************************)
\* One tuple of return_conversations(CONFIG): idx is the subject's position
\* in max_electrodes.  The conversation's name, suffix and electrode list
\* are only handed on to glob and return_electrode_array, whose answers are
\* drawn where they are called.
ConvTuples == [idx : 0..(Len(max_electrodes) - 1)]

\* The numbers of columns return_electrode_array may come back with.
Widths == 1..2

\* The recording of conversation number c with w electrodes.
EcogArray(c, w) ==
    [t \in 1..MaxSamples |-> [e \in 1..w |-> (t * t + 2 * e + c) % 5]]

\* A gram with what calculate_windows_params and test_for_bad_window
\* answer for it: labels from L, window starts from S, bin counts from B.
\* The window [1, MaxSamples + 1) runs past the recording, the start -1
\* counts from its end.  A rejected gram's window is never read.
GramsOf(L, S, B) ==
    { g \in [label : L, seq_length : 0..1, bad : BOOLEAN,
             start_onset : S, end_onset : {MaxSamples, MaxSamples + 1},
             n_bins : B] :
        /\ (g.end_onset = MaxSamples + 1) <=> (g.start_onset = 1)
        /\ (g.seq_length <= 0 \/ g.bad) =>
              (g.start_onset = 0 /\ g.n_bins = 1
               /\ ~(g.seq_length <= 0 /\ g.bad)) }

NoGram == [label |-> 0, seq_length |-> 0, bad |-> FALSE, start_onset |-> 0,
           end_onset |-> 0, n_bins |-> 0]

NoReport == [total |-> -1, samples |-> -1, labels |-> -1]

InitBuild(lens, Tuples, at) ==
    /\ convs \in UNION {[1..n -> Tuples] : n \in lens}
    /\ ci = 0
    /\ pc = at
    /\ ecogs = <<>>
    /\ n_grams = 0
    /\ gram = NoGram
    /\ labels = <<>>
    /\ signals = <<>>
    /\ word_signal = <<>>
    /\ made_by = <<>>
    /\ dne = <<>>
    /\ report = NoReport

\* convs[:20]
Processed == SubSeq(convs, 1, Min(Len(convs), ConvCap))

\* line 37: the next conversation of convs[:20], or the end of the loop.
ForConv ==
    /\ pc = "for_conv"
    /\ IF ci < Len(Processed)
       THEN /\ ci' = ci + 1
            /\ pc' = "glob"
       ELSE /\ pc' = "report"
            /\ UNCHANGED ci
    /\ UNCHANGED <<convs, ecogs, n_grams, gram, labels, signals, word_signal,
                   made_by, dne, report>>
    /\ UNCHANGED notBuild

\* Mutant: a missing file ends the loop (break instead of continue).
Glob_Break(Found) ==
    /\ pc = "glob"
    /\ \E found \in Found :
          IF found
          THEN pc' = "ecogs" /\ UNCHANGED dne
          ELSE pc' = "report" /\ dne' = Append(dne, ci)
    /\ UNCHANGED <<convs, ci, ecogs, n_grams, gram, labels, signals,
                   word_signal, made_by, report>>
    /\ UNCHANGED notBuild

\* lines 39-43: glob.glob(conversation + suffix)[0]; IndexError -> 'File
\* DNE' is printed and the loop continues.
Glob(Found) ==
    /\ pc = "glob"
    /\ \E found \in Found :
          IF found
          THEN pc' = "ecogs" /\ UNCHANGED dne
          ELSE pc' = "for_conv" /\ dne' = Append(dne, ci)
    /\ UNCHANGED <<convs, ci, ecogs, n_grams, gram, labels, signals,
                   word_signal, made_by, report>>
    /\ UNCHANGED notBuild

\* lines 46-49: return_electrode_array; an empty array -> continue.
LoadEcogs(Arrays) ==
    /\ pc = "ecogs"
    /\ \E ary \in Arrays :
          /\ ecogs' = ary
          /\ pc' = IF ary = <<>> THEN "for_conv" ELSE "grams"
    /\ UNCHANGED <<convs, ci, n_grams, gram, labels, signals, word_signal,
                   made_by, dne, report>>
    /\ UNCHANGED notBuild

\* lines 51-65: the conversation's unigrams or bigrams without duplicates;
\* none -> continue.  Only their number is drawn here, each gram is drawn
\* when the loop reaches it.
LoadGrams(Counts) ==
    /\ pc = "grams"
    /\ \E n \in Counts :
          /\ n_grams' = n
          /\ pc' = IF n = 0 THEN "for_conv" ELSE "for_gram"
    /\ UNCHANGED <<convs, ci, ecogs, gram, labels, signals, word_signal,
                   made_by, dne, report>>
    /\ UNCHANGED notBuild

\* lines 67-70: the next gram and its window parameters.
ForGram(GramSet, cap) ==
    /\ pc \in {"for_gram", "appended"}
    /\ IF n_grams > 0
       THEN \E g \in GramSet :
               /\ (g.seq_length > 0 /\ ~g.bad) => Len(labels) < cap
               /\ gram' = g
               /\ n_grams' = n_grams - 1
               /\ pc' = "test"
       ELSE /\ pc' = "for_conv"
            /\ UNCHANGED <<gram, n_grams>>
    /\ UNCHANGED <<convs, ci, ecogs, labels, signals, word_signal, made_by,
                   dne, report>>
    /\ UNCHANGED notBuild

\* lines 72-77: a gram of no length or with a bad window is skipped.
Rejected(g) == g.seq_length <= 0 \/ g.bad

\* Mutant: the label is appended before the two tests.
TestGram_LabelFirst ==
    /\ pc = "test"
    /\ labels' = Append(labels, gram.label)
    /\ pc' = IF Rejected(gram) THEN "for_gram" ELSE "bin"
    /\ UNCHANGED <<convs, ci, ecogs, n_grams, gram, signals, word_signal,
                   made_by, dne, report>>
    /\ UNCHANGED notBuild

TestGram ==
    /\ pc = "test"
    /\ pc' = IF Rejected(gram) THEN "for_gram" ELSE "label"
    /\ UNCHANGED <<convs, ci, ecogs, n_grams, gram, labels, signals,
                   word_signal, made_by, dne, report>>
    /\ UNCHANGED notBuild

\* line 79: labels.append(gram[0])
AppendLabel ==
    /\ pc = "label"
    /\ labels' = Append(labels, gram.label)
    /\ pc' = "bin"
    /\ UNCHANGED <<convs, ci, ecogs, n_grams, gram, signals, word_signal,
                   made_by, dne, report>>
    /\ UNCHANGED notBuild

\* The electrode block of the current conversation, as Python bounds.
BlockLo == cumsum_electrodes[convs[ci].idx + 1]

BlockHi == cumsum_electrodes[convs[ci].idx + 2]

\* lines 82-87: row i of the zero matrix gets the mean of piece i.
BinnedSignal(ec, g, lo, hi) ==
    LET pieces == ArraySplit(PySlice(ec, g.start_onset, g.end_onset),
                             g.n_bins)
        zeros  == Zeros(g.n_bins, SumSeq(max_electrodes))
    IN  [i \in 1..g.n_bins |->
            AssignBlock(zeros[i], lo, hi, MeanAxis0(pieces[i], Len(ec[1])))]

\* lines 80-87.  np.array_split raises ValueError for n_bins = 0, and the
\* block assignment for a mean that cannot be broadcast into the block.
BinGram ==
    /\ pc = "bin"
    /\ IF gram.n_bins <= 0
          \/ ~CanAssign(BlockLo, BlockHi, ecogs[1])
       THEN /\ pc' = "ValueError"
            /\ UNCHANGED word_signal
       ELSE /\ word_signal' = BinnedSignal(ecogs, gram, BlockLo, BlockHi)
            /\ pc' = "append"
    /\ UNCHANGED <<convs, ci, ecogs, n_grams, gram, labels, signals, made_by,
                   dne, report>>
    /\ UNCHANGED notBuild

\* line 90: signals.append(word_signal)
AppendSignal ==
    /\ pc = "append"
    /\ signals' = Append(signals, word_signal)
    /\ made_by' = Append(made_by, [conv |-> ci, gram |-> gram])
    /\ pc' = "appended"
    /\ UNCHANGED <<convs, ci, ecogs, n_grams, gram, labels, word_signal,
                   dne, report>>
    /\ UNCHANGED notBuild

\* lines 92-96: the three counts are printed; max() of no signal raises
\* ValueError.
Report ==
    /\ pc = "report"
    /\ report' = [total |-> Len(convs), samples |-> Len(signals),
                  labels |-> Len(labels)]
    /\ pc' = IF signals = <<>> THEN "ValueError" ELSE "assert"
    /\ UNCHANGED <<convs, ci, ecogs, n_grams, gram, labels, signals,
                   word_signal, made_by, dne>>
    /\ UNCHANGED notBuild

\* lines 98-100
AssertShape ==
    /\ pc = "assert"
    /\ pc' = IF Len(labels) = Len(signals) THEN "return" ELSE "AssertionError"
    /\ UNCHANGED <<convs, ci, ecogs, n_grams, gram, labels, signals,
                   word_signal, made_by, dne, report>>
    /\ UNCHANGED notBuild

(***************************************************************************)
(* Spec: up to MaxConvs conversations of up to MaxGrams grams with labels  *)
(* 1..MaxLabel; at most MaxExamples grams are accepted in a run.           *)
(***************************************************************************)
Init ==
    /\ InitBuild(0..MaxConvs, ConvTuples, "for_conv")
    /\ IdleFilter /\ IdleDs /\ IdleBatch /\ IdleFold /\ IdleMain
    /\ IdleRest

Next ==
    \/ ForConv
    \/ Glob(BOOLEAN)
    \/ LoadEcogs({<<>>} \cup {EcogArray(ci, w) : w \in Widths})
    \/ LoadGrams(0..MaxGrams)
    \/ ForGram(GramsOf(1..MaxLabel, {0}, 0..1), MaxExamples)
    \/ TestGram
    \/ AppendLabel
    \/ BinGram
    \/ AppendSignal
    \/ Report
    \/ AssertShape

Spec == Init /\ [][Next]_vars

(***************************************************************************)
(* SpecBins: runs in which every conversation has its file, a recording    *)
(* and one gram, with one label and every window and bin count.            *)
(***************************************************************************)
NextBins ==
    \/ ForConv
    \/ Glob({TRUE})
    \/ LoadEcogs({EcogArray(ci, w) : w \in Widths})
    \/ LoadGrams({1})
    \/ ForGram(GramsOf({1}, {-1, 0, 1}, 0..MaxBins), MaxExamples)
    \/ TestGram
    \/ AppendLabel
    \/ BinGram
    \/ AppendSignal
    \/ Report
    \/ AssertShape

SpecBins == Init /\ [][NextBins]_vars

(***************************************************************************)
(* SpecMany: lists of about ConvCap conversations, each with its file, a   *)
(* recording and one accepted gram.                                        *)
(***************************************************************************)
InitMany ==
    /\ InitBuild((ConvCap - 1)..(ConvCap + 1), {[idx |-> 0]}, "for_conv")
    /\ IdleFilter /\ IdleDs /\ IdleBatch /\ IdleFold /\ IdleMain
    /\ IdleRest

NextMany ==
    \/ ForConv
    \/ Glob({TRUE})
    \/ LoadEcogs({EcogArray(ci, 1)})
    \/ LoadGrams({1})
    \/ ForGram(GramsOf({1}, {0}, {1}) \ {g \in GramsOf({1}, {0}, {1}) :
                   Rejected(g)}, ConvCap + 2)
    \/ TestGram
    \/ AppendLabel
    \/ BinGram
    \/ AppendSignal
    \/ Report
    \/ AssertShape

SpecMany == InitMany /\ [][NextMany]_vars

(***************************************************************************)
(* Claims about build_design_matrices.                                     *)
(***************************************************************************)
\* Between line 79 and line 90 a label waits for its signal.
MidGram == pc \in {"bin", "append", "ValueError"}

\* C1: after every processed gram and at return, labels and signals have
\* the same length and the k-th label is gram[0] of the gram that produced
\* the k-th signal; the assertion 'Bad Shape for Lengths' never fails.
C1_LabelsMatchSignals ==
    /\ pc # "AssertionError"
    /\ ~MidGram =>
          /\ Len(labels) = Len(signals)
          /\ \A k \in 1..Len(signals) : labels[k] = made_by[k].gram.label

\* C1 witness: a run returns two examples with different labels after its
\* last gram was rejected.
C1_Witness ==
    /\ pc = "return"
    /\ Len(signals) = 2
    /\ labels[1] # labels[2]
    /\ Rejected(gram)

\* C2: a conversation whose datum file is missing adds no signal and no
\* label and raises nothing: the loop goes on with the next conversation,
\* so that every conversation of convs[:20] has been visited when the loop
\* ends.
C2_MissingFileSkipped ==
    /\ [][dne' # dne =>
            /\ pc' = "for_conv"
            /\ UNCHANGED <<signals, labels, made_by, convs, ci>>]_vars
    /\ [](pc \in {"report", "assert", "return"} => ci = Len(Processed))

\* C2 witness: a run returns an example of a conversation listed after one
\* whose file was missing.
C2_Witness ==
    /\ pc = "return"
    /\ dne # <<>>
    /\ \E k \in 1..Len(made_by) : made_by[k].conv > dne[1]

\* The sum over rows lo + 1 .. lo + size of channel ch, over the row count.
RECURSIVE RowSum(_, _, _, _)
RowSum(data, lo, size, ch) ==
    IF size = 0 THEN 0
    ELSE data[lo + size][ch] + RowSum(data, lo, size - 1, ch)

PieceMean(data, lo, size, ch) == <<RowSum(data, lo, size, ch), size>>

\* C3: the signal appended for an accepted gram has n_bins rows and
\* sum(max_electrodes) columns, and row i holds in the conversation's
\* electrode block the channel-wise mean of the i-th of n_bins contiguous
\* pieces, in order, that cover ecogs[start_onset:end_onset] exactly once
\* and whose sizes differ by at most one.  (A recording of one channel is
\* broadcast over the block.)
C3_BinnedMeans ==
    pc = "appended" =>
        LET s    == Last(signals)
            data == PySlice(ecogs, gram.start_onset, gram.end_onset)
            n    == gram.n_bins
            w    == Len(ecogs[1])
        IN  /\ Len(s) = n
            /\ \A i \in 1..n : Len(s[i]) = SumSeq(max_electrodes)
            /\ \E size \in [1..n -> 0..Len(data)] :
                  /\ SumSeq(size) = Len(data)
                  /\ \A i, j \in 1..n : size[i] - size[j] <= 1
                  /\ \A i \in 1..n : \A col \in (BlockLo + 1)..BlockHi :
                        s[i][col] =
                            PieceMean(data, SumSeq(SubSeq(size, 1, i - 1)),
                                      size[i],
                                      IF w = 1 THEN 1 ELSE col - BlockLo)

\* C3 witness: three samples were binned into two pieces of two channels.
C3_Witness ==
    /\ pc = "appended"
    /\ gram.n_bins = 2
    /\ Len(PySlice(ecogs, gram.start_onset, gram.end_onset)) = 3
    /\ Len(ecogs[1]) = 2

\* C4: every conversation returned by return_conversations is processed:
\* each one with a file, a recording and a valid gram has an example in
\* the output, and the total printed is the number of conversations the
\* loop went over.  (Stated for SpecMany, where every conversation is such
\* a conversation.)
C4_EveryConversationProcessed ==
    pc = "return" =>
        /\ \A c \in 1..Len(convs) :
              \E k \in 1..Len(made_by) : made_by[k].conv = c
        /\ report.total = ci

(***************************************************************************)
(* filter_utils.                                                           *)
(***************************************************************************)
\* A signal of n rows; its rows carry the number it has in the input.
SignalOf(k, n) == [t \in 1..n |-> <<k>>]

\* A label is a Python sequence of words: a list or a tuple.  A list and a
\* tuple of the same words are not equal in Python.
PyList(items) == [kind |-> "list", items |-> items]

PyTuple(items) == [kind |-> "tuple", items |-> items]

\* itertools.compress(data, selectors)
RECURSIVE compress(_, _)
compress(data, selectors) ==
    IF data = <<>> \/ selectors = <<>> THEN <<>>
    ELSE (IF Head(selectors) THEN <<Head(data)>> ELSE <<>>)
         \o compress(Tail(data), Tail(selectors))

\* Counter([tuple(label) for label in labels])
label_counts(labs) ==
    [t \in {PyTuple(labs[k].items) : k \in 1..Len(labs)} |->
        Cardinality({k \in 1..Len(labs) : PyTuple(labs[k].items) = t})]

\* The labels selected are lists; `label in select_labels` compares the
\* label with each of them.
return_label_flag(labs, set_min_samples) ==
    LET label_counter == label_counts(labs)
        select_labels ==
            {PyList(t.items) : t \in {u \in DOMAIN label_counter :
                                        label_counter[u] >= set_min_samples}}
    IN  [k \in 1..Len(labs) |-> labs[k] \in select_labels]

\* Mutant: signals strictly shorter than the threshold only.
return_signal_flag_Strict(sigs, set_max_seq_length) ==
    [k \in 1..Len(sigs) |-> Len(sigs[k]) < set_max_seq_length]

return_signal_flag(sigs, set_max_seq_length) ==
    [k \in 1..Len(sigs) |-> Len(sigs[k]) <= set_max_seq_length]

filter_by_labels(sigs, labs, set_min_samples) ==
    LET label_flag == return_label_flag(labs, set_min_samples)
    IN  <<compress(sigs, label_flag), compress(labs, label_flag)>>

filter_by_signals(sigs, labs, set_max_seq_length) ==
    LET signal_flag == return_signal_flag(sigs, set_max_seq_length)
    IN  <<compress(sigs, signal_flag), compress(labs, signal_flag)>>

\* The caller's signals and labels: up to MaxN pairs, the labels all lists
\* or all tuples of one word, and the threshold it passes.
InitFilter ==
    /\ \E n \in 0..MaxN :
          /\ \E len \in [1..n -> 0..MaxSeqLen] :
                f_signals = [k \in 1..n |-> SignalOf(k, len[k])]
          /\ \E kind \in {"list", "tuple"} : \E w \in [1..n -> 1..MaxLabel] :
                f_labels = [k \in 1..n |->
                               [kind |-> kind, items |-> <<w[k]>>]]
    /\ f_arg \in 0..MaxN
    /\ f_op = "none"
    /\ f_calls = 0
    /\ f_before = <<>>

\* signals, labels = filter_by_labels(signals, labels, set_min_samples)
FilterByLabels ==
    /\ f_op \in {"none", "labels"}
    /\ f_calls < MaxCalls
    /\ LET r == filter_by_labels(f_signals, f_labels, f_arg)
       IN  f_signals' = r[1] /\ f_labels' = r[2]
    /\ f_before' = <<f_signals, f_labels>>
    /\ f_op' = "labels"
    /\ f_calls' = f_calls + 1
    /\ UNCHANGED f_arg
    /\ UNCHANGED notFilter

\* signals, labels = filter_by_signals(signals, labels, set_max_seq_length)
FilterBySignals ==
    /\ f_op \in {"none", "signals"}
    /\ f_calls < MaxCalls
    /\ LET r == filter_by_signals(f_signals, f_labels, f_arg)
       IN  f_signals' = r[1] /\ f_labels' = r[2]
    /\ f_before' = <<f_signals, f_labels>>
    /\ f_op' = "signals"
    /\ f_calls' = f_calls + 1
    /\ UNCHANGED f_arg
    /\ UNCHANGED notFilter

IdleBuild == InitBuild({0}, ConvTuples, "idle")

(***************************************************************************)
(* SpecFilter: one of the two filters is applied up to MaxCalls times to   *)
(* what the caller holds.                                                  *)
(***************************************************************************)
InitFilterSpec ==
    /\ InitFilter
    /\ IdleBuild /\ IdleDs /\ IdleBatch /\ IdleFold /\ IdleMain
    /\ IdleRest

NextFilter ==
    \/ FilterByLabels
    \/ FilterBySignals

SpecFilter == InitFilterSpec /\ [][NextFilter]_vars

\* The positions of `before` a filter is said to keep, and the pairs at
\* those positions in input order.
RECURSIVE Ascending(_)
Ascending(S) ==
    IF S = {} THEN <<>>
    ELSE LET m == CHOOSE x \in S : \A y \in S : x <= y
         IN  <<m>> \o Ascending(S \ {m})

KeptPairs(before, K) ==
    LET ix == Ascending(K)
    IN  <<[j \in 1..Len(ix) |-> before[1][ix[j]]],
          [j \in 1..Len(ix) |-> before[2][ix[j]]]>>

\* C6: filter_by_labels keeps the pair (signals[k], labels[k]) if and only
\* if the words of labels[k] occur at least set_min_samples times among the
\* input labels, whether the labels are lists or tuples; the pairs kept
\* stay in input order and stay paired.
C6_KeepsFrequentLabels ==
    (f_op = "labels" /\ f_calls = 1) =>
        <<f_signals, f_labels>> =
            KeptPairs(f_before,
                {k \in 1..Len(f_before[2]) :
                    Cardinality({j \in 1..Len(f_before[2]) :
                        f_before[2][j].items = f_before[2][k].items})
                    >= f_arg})

\* C7: filter_by_signals keeps the pair (signals[k], labels[k]) if and only
\* if len(signals[k]) <= set_max_seq_length; the pairs kept stay in input
\* order and stay paired, the two lists returned have the same length, and
\* a second application with the same threshold changes nothing.
C7_KeepsShortSignals ==
    f_op = "signals" =>
        /\ Len(f_signals) = Len(f_labels)
        /\ f_calls = 1 =>
              <<f_signals, f_labels>> =
                  KeptPairs(f_before,
                      {k \in 1..Len(f_before[1]) :
                          Len(f_before[1][k]) <= f_arg})
        /\ f_calls > 1 => <<f_signals, f_labels>> = f_before

\* C7 witness: a second application has run on a result in which a signal
\* exactly as long as the threshold was kept and a longer one was dropped.
C7_Witness ==
    /\ f_op = "signals"
    /\ f_calls = 2
    /\ Len(f_signals) = 2
    /\ \E k \in 1..2 : Len(f_signals[k]) = f_arg
    /\ Len(f_signals[1]) >= 1
    /\ f_signals[1] # SignalOf(1, Len(f_signals[1]))

(***************************************************************************)
(* dl_utils.Brain2TextDataset.                                             *)
(***************************************************************************)
\* torch.from_numpy(x).float() and torch.tensor(y).long(): a tensor of the
\* given type holding the values of its argument.
Tensor(dtype, data) == [dtype |-> dtype, data |-> data]

\* getKey: len(item[0])
getKey(pair) == Len(pair[1])

\* Mutant: an element goes in front of the elements with its key.
RECURSIVE InsertByKey_BeforeEqual(_, _)
InsertByKey_BeforeEqual(s, e) ==
    IF s = <<>> THEN <<e>>
    ELSE IF getKey(e) <= getKey(Head(s)) THEN <<e>> \o s
         ELSE <<Head(s)>> \o InsertByKey_BeforeEqual(Tail(s), e)

\* An element goes behind every element whose key is not larger.
RECURSIVE InsertByKey(_, _)
InsertByKey(s, e) ==
    IF s = <<>> THEN <<e>>
    ELSE IF getKey(e) < getKey(Head(s)) THEN <<e>> \o s
         ELSE <<Head(s)>> \o InsertByKey(Tail(s), e)

\* sorted(list, key=self.getKey): Python's sort, which is stable.
RECURSIVE SortedByKey(_)
SortedByKey(s) ==
    IF s = <<>> THEN <<>>
    ELSE InsertByKey(SortedByKey(SubSeq(s, 1, Len(s) - 1)), s[Len(s)])

\* zip(signals, labels)
Zip(xs, ys) == [k \in 1..Min(Len(xs), Len(ys)) |-> <<xs[k], ys[k]>>]

\* The arguments of the constructor: up to MaxN signals of up to MaxSeqLen
\* rows and up to MaxN labels.
InitDs ==
    /\ \E n \in 0..MaxN : \E len \in [1..n -> 0..MaxSeqLen] :
          ds_signals = [k \in 1..n |-> SignalOf(k, len[k])]
    /\ \E m \in 0..MaxN : ds_labels \in [1..m -> 1..MaxLabel]
    /\ ds_pc = "new"
    /\ examples = <<>>
    /\ item = <<>>

\* __init__ (lines 25-29)
DatasetInit ==
    /\ ds_pc = "new"
    /\ IF Len(ds_signals) = Len(ds_labels)
       THEN /\ examples' =
                   LET example_list == SortedByKey(Zip(ds_signals, ds_labels))
                   IN  [k \in 1..Len(example_list) |->
                           <<Tensor("float32", example_list[k][1]),
                             Tensor("int64", example_list[k][2])>>]
            /\ ds_pc' = "built"
       ELSE /\ ds_pc' = "AssertionError"
            /\ UNCHANGED examples
    /\ UNCHANGED <<ds_signals, ds_labels, item>>
    /\ UNCHANGED notDs

\* __getitem__(idx) for an index of the list, counted from either end.
GetItem ==
    /\ ds_pc = "built"
    /\ \E idx \in (-Len(examples))..(Len(examples) - 1) :
          item' = examples[IF idx < 0 THEN idx + Len(examples) + 1
                           ELSE idx + 1]
    /\ UNCHANGED <<ds_signals, ds_labels, ds_pc, examples>>
    /\ UNCHANGED notDs

(***************************************************************************)
(* SpecDataset: a dataset is constructed and read.                         *)
(***************************************************************************)
InitDataset ==
    /\ InitDs
    /\ IdleBuild /\ IdleFilter /\ IdleBatch /\ IdleFold /\ IdleMain
    /\ IdleRest

NextDataset ==
    \/ DatasetInit
    \/ GetItem

SpecDataset == InitDataset /\ [][NextDataset]_vars

\* The bijections of 1..n onto itself.
Perms(n) == {f \in [1..n -> 1..n] : \A i, j \in 1..n : f[i] = f[j] => i = j}

\* C8: the dataset holds len(signals) examples in order of non-decreasing
\* signal length; they are a permutation of the input pairs in which every
\* signal keeps its label, and examples of equal signal length keep their
\* input order; the constructor fails its assertion when the two lists
\* differ in length.
C8_SortedStablePermutation ==
    /\ ds_pc = "AssertionError" <=>
          (ds_pc # "new" /\ Len(ds_signals) # Len(ds_labels))
    /\ ds_pc = "built" =>
          /\ Len(examples) = Len(ds_signals)
          /\ \E f \in Perms(Len(examples)) :
                /\ \A j \in 1..Len(examples) :
                      /\ examples[j][1].data = ds_signals[f[j]]
                      /\ examples[j][2].data = ds_labels[f[j]]
                /\ \A i, j \in 1..Len(examples) :
                      i < j =>
                         \/ Len(ds_signals[f[i]]) < Len(ds_signals[f[j]])
                         \/ /\ Len(ds_signals[f[i]]) = Len(ds_signals[f[j]])
                            /\ f[i] < f[j]
          /\ item # <<>> => \E j \in 1..Len(examples) : item = examples[j]

\* C8 witness: a dataset of three examples, two of them of the same signal
\* length with different labels, built from signals not given in order.
C8_Witness ==
    /\ ds_pc = "built"
    /\ Len(examples) = 3
    /\ Len(ds_signals[1]) > Len(ds_signals[2])
    /\ \E j \in 1..2 :
          /\ Len(examples[j][1].data) = Len(examples[j + 1][1].data)
          /\ examples[j][2].data # examples[j + 1][2].data
    /\ item # <<>>

(***************************************************************************)
(* batch_submit.                                                           *)
(***************************************************************************)
\* The parameter values are kept as str() prints them.
stringlists ==
    <<"--model", "--subjects", "--lr", "--gpus", "--epochs", "--batch-size",
      "--max-electrodes", "--shift", "--bin-size", "--weight-decay",
      "--tf-dropout", "--tf-nlayer", "--tf-nhead", "--temp">>

\* Every list over U without a repeated value, the empty one included.
RECURSIVE ListsOver(_)
ListsOver(U) ==
    {<<>>} \cup UNION {{<<u>> \o l : l \in ListsOver(U \ {u})} : u \in U}

\* somelists (lines 63-83) for a list of subjects and one of electrode
\* counts; tf_dropout is the list tf_weight_decay.
SomeLists(subjects, electrodes) ==
    <<<<"MeNTAL">>, subjects, <<"0.0001">>, <<"2">>, <<"100">>, <<"120">>,
      electrodes, <<"0">>, <<"50">>, <<"0.01">>, <<"0.01">>, <<"3">>,
      <<"4">>, <<"0.9">>>>

\* itertools.product(*lists): every choice of one value per list, the last
\* list running fastest.
RECURSIVE product(_)
product(lists) ==
    IF lists = <<>> THEN << <<>> >>
    ELSE LET rest == product(Tail(lists))
             n    == Len(rest)
         IN  [k \in 1..(Len(Head(lists)) * n) |->
                 <<Head(lists)[((k - 1) \div n) + 1]>>
                 \o rest[((k - 1) % n) + 1]]

\* sep.join(items)
RECURSIVE join(_, _)
join(sep, items) ==
    IF items = <<>> THEN ""
    ELSE IF Len(items) = 1 THEN items[1]
         ELSE items[1] \o sep \o join(sep, Tail(items))

\* final_s (lines 96-98)
final_s(elem) ==
    [k \in 1..Min(Len(stringlists), Len(elem)) |->
        stringlists[k] \o " " \o elem[k]]

\* os.path.join(os.getcwd(), 'slurm_scripts', f'{job_name_str}.sh')
FileName(job) == "slurm_scripts/" \o job \o ".sh"

\* The lines written before the arguments (lines 12-37).
ScriptHead(job) ==
    <<"#!/bin/bash",
      "#SBATCH --job-name=" \o job,
      "#SBATCH --output=./slurm_logs/%j-%x.out",
      "#SBATCH --error=./slurm_logs/%j-%x.err",
      "#SBATCH --nodes=1 #nodes",
      "#SBATCH --ntasks-per-node=1",
      "#SBATCH --cpus-per-task=4",
      "#SBATCH --mem=16G",
      "#SBATCH --time=0-02:00:00",
      "#SBATCH --gres=gpu:1",
      "#SBATCH --mail-type=begin",
      "#SBATCH --mail-type=fail",
      "#SBATCH --mail-type=end",
      "#SBATCH --mail-user=hvgazula@umich.edu",
      "",
      "module purge",
      "module load anaconda3",
      "conda activate torch-env",
      "",
      "if [[ -v $SLURM_TASK_ARRAY_ID ]]",
      "then",
      "SEED=$SLURM_TASK_ARRAY_ID",
      "else",
      "SEED=1234",
      "fi",
      "python main.py">>

\* The lines written after them (lines 40-41).
ScriptTail(job) == <<"--seed $SEED", "--output-folder " \o job>>

NoFile == [lines |-> <<>>, open |-> FALSE]

\* The parameter lists: subjects and electrode counts are any lists of the
\* values the file names, the other lists are as written.
InitBatch ==
    /\ \E subjects \in ListsOver({"625", "676"}) :
       \E electrodes \in ListsOver({"55", "64"}) :
          /\ somelists = SomeLists(subjects, electrodes)
          /\ a = product(SomeLists(subjects, electrodes))
    /\ element = <<>>
    /\ job_name_str = ""
    /\ fh = ""
    /\ files = <<>>
    /\ submitted = <<>>
    /\ count = 0
    /\ b_pc = "for"

\* lines 95-100: the next element of the product and its job name, or the
\* end of the loop (line 105).
NextElement ==
    /\ b_pc = "for"
    /\ IF a # <<>>
       THEN /\ element' = Head(a)
            /\ a' = Tail(a)
            /\ job_name_str' = join("_", Head(a))
            /\ b_pc' = "open"
       ELSE /\ b_pc' = "done"
            /\ UNCHANGED <<element, a, job_name_str>>
    /\ UNCHANGED <<somelists, fh, files, submitted, count>>
    /\ UNCHANGED notBatch

\* lines 8-11: open(file_name, 'w+') creates the file or empties it.
OpenScript ==
    /\ b_pc = "open"
    /\ fh' = FileName(job_name_str)
    /\ files' = (FileName(job_name_str) :> [lines |-> <<>>, open |-> TRUE])
                @@ files
    /\ b_pc' = "head"
    /\ UNCHANGED <<somelists, a, element, job_name_str, submitted, count>>
    /\ UNCHANGED notBatch

Write(lines) ==
    files' = [files EXCEPT ![fh].lines = @ \o lines]

\* lines 12-37
WriteHead ==
    /\ b_pc = "head"
    /\ Write(ScriptHead(job_name_str))
    /\ b_pc' = "args"
    /\ UNCHANGED <<somelists, a, element, job_name_str, fh, submitted, count>>
    /\ UNCHANGED notBatch

\* lines 38-39
WriteArgs ==
    /\ b_pc = "args"
    /\ Write(final_s(element))
    /\ b_pc' = "tail"
    /\ UNCHANGED <<somelists, a, element, job_name_str, fh, submitted, count>>
    /\ UNCHANGED notBatch

\* lines 40-41
WriteTail ==
    /\ b_pc = "tail"
    /\ Write(ScriptTail(job_name_str))
    /\ b_pc' = "close"
    /\ UNCHANGED <<somelists, a, element, job_name_str, fh, submitted, count>>
    /\ UNCHANGED notBatch

\* Mutant: the file is still open when create_script returns.
CloseScript_LeftOpen ==
    /\ b_pc = "close"
    /\ b_pc' = "sbatch"
    /\ UNCHANGED <<somelists, a, element, job_name_str, fh, files, submitted,
                   count>>
    /\ UNCHANGED notBatch

\* line 43: the with block closes the file and the name is returned.
CloseScript ==
    /\ b_pc = "close"
    /\ files' = [files EXCEPT ![fh].open = FALSE]
    /\ b_pc' = "sbatch"
    /\ UNCHANGED <<somelists, a, element, job_name_str, fh, submitted, count>>
    /\ UNCHANGED notBatch

\* line 102: os.system(f'sbatch {file_name}')
Sbatch ==
    /\ b_pc = "sbatch"
    /\ submitted' = Append(submitted, fh)
    /\ b_pc' = "count"
    /\ UNCHANGED <<somelists, a, element, job_name_str, fh, files, count>>
    /\ UNCHANGED notBatch

\* line 103
CountUp ==
    /\ b_pc = "count"
    /\ count' = count + 1
    /\ b_pc' = "for"
    /\ UNCHANGED <<somelists, a, element, job_name_str, fh, files, submitted>>
    /\ UNCHANGED notBatch

(***************************************************************************)
(* SpecBatch: one run of batch_submit.                                     *)
(***************************************************************************)
InitBatchSpec ==
    /\ InitBatch
    /\ IdleBuild /\ IdleFilter /\ IdleDs /\ IdleFold /\ IdleMain
    /\ IdleRest

NextBatch ==
    \/ NextElement
    \/ OpenScript
    \/ WriteHead
    \/ WriteArgs
    \/ WriteTail
    \/ CloseScript
    \/ Sbatch
    \/ CountUp

SpecBatch == InitBatchSpec /\ [][NextBatch]_vars

\* The product of the lengths of the lists from position j on.
RECURSIVE LenProduct(_, _)
LenProduct(lists, j) ==
    IF j > Len(lists) THEN 1 ELSE Len(lists[j]) * LenProduct(lists, j + 1)

\* The k-th element of the Cartesian product in product order: position j
\* holds the digit of k - 1 in the mixed radix of the list lengths.
NthElement(lists, k) ==
    [j \in 1..Len(lists) |->
        lists[j][(((k - 1) \div LenProduct(lists, j + 1)) % Len(lists[j]))
                 + 1]]

\* The script of an element, complete.
ScriptOf(elem) ==
    ScriptHead(join("_", elem)) \o final_s(elem) \o ScriptTail(join("_", elem))

\* C9: a run writes one script per element of the Cartesian product of the
\* parameter lists, in product order; a script is complete and closed when
\* it is passed to sbatch, no script is submitted twice, and the count at
\* the end is the number of scripts submitted, the product of the lengths
\* of the lists.
C9_OneScriptPerElement ==
    /\ [][submitted' # submitted =>
            /\ submitted' = Append(submitted, fh)
            /\ ~files[fh].open
            /\ files[fh].lines = ScriptOf(element)
            /\ files' = files]_vars
    /\ [](/\ \A k \in 1..Len(submitted) :
                submitted[k] =
                    FileName(join("_", NthElement(somelists, k)))
          /\ \A j, k \in 1..Len(submitted) :
                submitted[j] = submitted[k] => j = k
          /\ b_pc = "done" =>
                /\ count = Len(submitted)
                /\ count = LenProduct(somelists, 1)
                /\ DOMAIN files = {submitted[k] : k \in 1..count}
                /\ \A k \in 1..count :
                      files[submitted[k]] =
                          [lines |-> ScriptOf(NthElement(somelists, k)),
                           open |-> FALSE])

\* C9 witness: a run over two subjects and two electrode counts has ended
\* with four scripts submitted.
C9_Witness ==
    /\ b_pc = "done"
    /\ count = 4
    /\ Len(submitted) = 4

(***************************************************************************)
(* tfs_pickling.create_label_pickles.                                      *)
(***************************************************************************)
\* str(i) for a fold index.
StrOf(i) == <<"0", "1", "2", "3", "4", "5", "6", "7", "8", "9">>[i + 1]

\* Mutant: the order of the folds is not shifted.
roll_NoShift(ary, shift) == ary

\* np.roll(ary, shift): the element at position k moves to position
\* (k + shift) mod len(ary).
roll(ary, shift) ==
    [k \in 1..Len(ary) |-> ary[((k - 1 - shift) % Len(ary)) + 1]]

\* range(5)
range(n) == [k \in 1..n |-> k - 1]

\* *train_fold, dev_fold, test_fold = folds_ixs
train_fold(ixs) == SubSeq(ixs, 1, Len(ixs) - 2)

\* Mutant: dev_fold is unpacked from the last position too.
dev_fold_Last(ixs) == ixs[Len(ixs)]

dev_fold(ixs) == ixs[Len(ixs) - 1]

test_fold(ixs) == ixs[Len(ixs)]

\* df.loc[rows, col] = value: a column that is new holds nan in the other
\* rows.
LocAssign(frame, rows, col, value) ==
    [frame EXCEPT !.cols =
        (col :> [r \in frame.index |->
                    IF r \in rows THEN value
                    ELSE IF col \in DOMAIN frame.cols THEN frame.cols[col][r]
                    ELSE "nan"])
        @@ frame.cols]

\* The state after line 69: df holds the rows kept by the vocabulary filter,
\* numbered from 0, and folds the test folds of StratifiedKFold(5), which
\* part the rows into five folds none of which is empty.
InitFold ==
    /\ \E n \in NSplits..MaxRows :
          /\ df = [index |-> 0..(n - 1), cols |-> <<>>]
          /\ \E f \in [0..(n - 1) -> 1..NSplits] :
                /\ \A t \in 1..NSplits : \E r \in 0..(n - 1) : f[r] = t
                /\ folds = [t \in 1..NSplits |->
                               {r \in 0..(n - 1) : f[r] = t}]
    /\ fold_i = 0
    /\ folds_ixs = <<>>
    /\ k_pc = "for"

fold_col == "fold" \o StrOf(fold_i)

\* lines 72, 78-80: the next fold index and its order of folds, or the end
\* of the loop and the pickle (lines 88-91).
Shift ==
    /\ k_pc = "for"
    /\ IF fold_i < NSplits
       THEN /\ folds_ixs' = roll(range(NSplits), fold_i)
            /\ k_pc' = "test"
       ELSE /\ k_pc' = "saved"
            /\ UNCHANGED folds_ixs
    /\ UNCHANGED <<folds, fold_i, df>>
    /\ UNCHANGED notFold

\* line 82
AssignTest ==
    /\ k_pc = "test"
    /\ df' = LocAssign(df, folds[test_fold(folds_ixs) + 1], fold_col, "test")
    /\ k_pc' = "dev"
    /\ UNCHANGED <<folds, fold_i, folds_ixs>>
    /\ UNCHANGED notFold

\* line 83
AssignDev ==
    /\ k_pc = "dev"
    /\ df' = LocAssign(df, folds[dev_fold(folds_ixs) + 1], fold_col, "dev")
    /\ k_pc' = "train"
    /\ UNCHANGED <<folds, fold_i, folds_ixs>>
    /\ UNCHANGED notFold

\* lines 84-86
AssignTrain ==
    /\ k_pc = "train"
    /\ df' = LocAssign(df,
                       folds[train_fold(folds_ixs)[1] + 1]
                       \cup folds[train_fold(folds_ixs)[2] + 1]
                       \cup folds[train_fold(folds_ixs)[3] + 1],
                       fold_col, "train")
    /\ fold_i' = fold_i + 1
    /\ k_pc' = "for"
    /\ UNCHANGED <<folds, folds_ixs>>
    /\ UNCHANGED notFold

(***************************************************************************)
(* SpecFolds: the fold columns are written for a frame of NSplits to       *)
(* MaxRows rows.                                                           *)
(***************************************************************************)
InitFoldSpec ==
    /\ InitFold
    /\ IdleBuild /\ IdleFilter /\ IdleDs /\ IdleBatch /\ IdleMain
    /\ IdleRest

NextFold ==
    \/ Shift
    \/ AssignTest
    \/ AssignDev
    \/ AssignTrain

SpecFolds == InitFoldSpec /\ [][NextFold]_vars

\* The rows of df that hold value v in column i.
RowsWith(i, v) == {r \in df.index : df.cols["fold" \o StrOf(i)][r] = v}

\* C5: in every column fold<i> each row has exactly one of 'train', 'dev',
\* 'test': the rows of one of the five folds are the 'test' rows, those of
\* another fold the 'dev' rows, those of the other three the 'train' rows,
\* and no row is left without a value.
C5_EachColumnSplitsFolds ==
    \A i \in 0..(fold_i - 1) :
        /\ \A r \in df.index :
              df.cols["fold" \o StrOf(i)][r] \in {"train", "dev", "test"}
        /\ \E t, d \in 1..NSplits :
              /\ t # d
              /\ RowsWith(i, "test") = folds[t]
              /\ RowsWith(i, "dev") = folds[d]
              /\ RowsWith(i, "train") =
                    UNION {folds[x] : x \in (1..NSplits) \ {t, d}}

\* C5 witness: all five columns are written for a frame in which one fold
\* has two rows.
C5_Witness ==
    /\ k_pc = "saved"
    /\ fold_i = NSplits
    /\ \E t \in 1..NSplits : Cardinality(folds[t]) = 2

\* [0 1 2 3 4] rotated left by n positions.
RotatedLeft(n) == [k \in 1..NSplits |-> (k - 1 + n) % NSplits]

\* C11: for fold index i the order of the folds is [0 1 2 3 4] rotated left
\* by i positions, so the test fold is fold (i + 4) mod 5 and the dev fold
\* is fold (i + 3) mod 5.
C11_RotatedLeft ==
    k_pc \in {"test", "dev", "train"} =>
        /\ folds_ixs = RotatedLeft(fold_i)
        /\ test_fold(folds_ixs) = (fold_i + 4) % NSplits
        /\ dev_fold(folds_ixs) = (fold_i + 3) % NSplits

\* The columns in which row r holds value v.
ColumnsWith(r, v) ==
    {i \in 0..(NSplits - 1) : df.cols["fold" \o StrOf(i)][r] = v}

\* C16: once the five columns are written, every row is 'test' in exactly
\* one column, 'dev' in exactly one and 'train' in exactly three: each fold
\* is the test fold of exactly one fold index and the dev fold of exactly
\* one other.
C16_EachFoldTestOnce ==
    k_pc = "saved" =>
        /\ \A r \in df.index :
              /\ Cardinality(ColumnsWith(r, "test")) = 1
              /\ Cardinality(ColumnsWith(r, "dev")) = 1
              /\ Cardinality(ColumnsWith(r, "train")) = 3
        /\ \A t \in 1..NSplits :
              \E i, j \in 0..(NSplits - 1) :
                 /\ i # j
                 /\ \A x \in 0..(NSplits - 1) :
                       /\ RowsWith(x, "test") = folds[t] <=> x = i
                       /\ RowsWith(x, "dev") = folds[t] <=> x = j

\* C16 witness: the five columns are written for six rows, and a row is
\* 'test' in a column other than the one of its fold's number.
C16_Witness ==
    /\ k_pc = "saved"
    /\ Cardinality(df.index) = 6
    /\ \E r \in df.index, t \in 1..NSplits :
          /\ r \in folds[t]
          /\ df.cols["fold" \o StrOf(t - 1)][r] # "test"

(***************************************************************************)
(* tfs_pickling.main.                                                      *)
(***************************************************************************)
\* What build_design_matrices returns (src/build_matrices.py, line 100).
BuildReturn == <<signals, labels>>

\* save_pickle: the name gets '.pkl' when it has none.
save_pickle(file_name) == Append(pickles, file_name \o ".pkl")

\* create_label_pickles saves under file_string + str(vocab_min_freq).
LabelPickle(file_string, vocab_min_freq) ==
    save_pickle(file_string \o StrOf(vocab_min_freq))

\* main (lines 94-138), one statement group a step.  An exception raised
\* in build_design_matrices or by the unpacking of its result ends main.
Main ==
    /\ main_pc \in {"start", "build", "full", "trimmed", "binned", "labels",
                    "both", "prod", "comp"}
    /\ CASE main_pc = "start" ->
              /\ main_pc' = IF CONFIG_pickle THEN "build" ELSE "return"
              /\ pc' = IF CONFIG_pickle THEN "for_conv" ELSE pc
              /\ UNCHANGED pickles
         [] main_pc = "build" ->
              /\ pc \in {"return", "ValueError", "AssertionError"}
              /\ main_pc' = IF pc # "return" THEN pc
                            ELSE IF Len(BuildReturn) = NUnpack THEN "full"
                            ELSE "ValueError"
              /\ UNCHANGED <<pc, pickles>>
         [] main_pc = "full" ->
              /\ pickles' = save_pickle("625_full_signal")
              /\ main_pc' = "trimmed"
              /\ UNCHANGED pc
         [] main_pc = "trimmed" ->
              /\ pickles' = save_pickle("625_trimmed_signal")
              /\ main_pc' = "binned"
              /\ UNCHANGED pc
         [] main_pc = "binned" ->
              /\ pickles' = save_pickle("625_binned_signal")
              /\ main_pc' = "labels"
              /\ UNCHANGED pc
         [] main_pc = "labels" ->
              /\ pickles' = save_pickle("625_all_labels")
              /\ main_pc' = "both"
              /\ UNCHANGED pc
         [] main_pc = "both" ->
              /\ \E f \in 1..2 :
                    pickles' = LabelPickle("625_both_labels_MWF", f)
              /\ main_pc' = "prod"
              /\ UNCHANGED pc
         [] main_pc = "prod" ->
              /\ \E f \in 1..2 :
                    pickles' = LabelPickle("625_prod_labels_MWF", f)
              /\ main_pc' = "comp"
              /\ UNCHANGED pc
         [] main_pc = "comp" ->
              /\ \E f \in 1..2 :
                    pickles' = LabelPickle("625_comp_labels_MWF", f)
              /\ main_pc' = "return"
              /\ UNCHANGED pc
    /\ UNCHANGED <<convs, ci, ecogs, n_grams, gram, labels, signals,
                   word_signal, made_by, dne, report, CONFIG_pickle>>
    /\ UNCHANGED <<filterVars, dsVars, batchVars, foldVars, restVars>>

(***************************************************************************)
(* SpecMain: tfs_pickling.main with CONFIG['pickle'] set or not, calling   *)
(* build_design_matrices on the inputs of Spec.                            *)
(***************************************************************************)
InitMain ==
    /\ CONFIG_pickle \in BOOLEAN
    /\ main_pc = "start"
    /\ pickles = <<>>
    /\ InitBuild(0..MaxConvs, ConvTuples, "idle")
    /\ IdleFilter /\ IdleDs /\ IdleBatch /\ IdleFold /\ IdleRest

NextMain ==
    \/ Main
    \/ ForConv
    \/ Glob(BOOLEAN)
    \/ LoadEcogs({<<>>} \cup {EcogArray(ci, w) : w \in Widths})
    \/ LoadGrams(0..MaxGrams)
    \/ ForGram(GramsOf(1..MaxLabel, {0}, 0..1), MaxExamples)
    \/ TestGram
    \/ AppendLabel
    \/ BinGram
    \/ AppendSignal
    \/ Report
    \/ AssertShape

SpecMain == InitMain /\ [][NextMain]_vars

\* The seven pickles of a run, in the order main writes them.
IsAllPickles(p) ==
    /\ Len(p) = 7
    /\ SubSeq(p, 1, 4) = <<"625_full_signal.pkl", "625_trimmed_signal.pkl",
                           "625_binned_signal.pkl", "625_all_labels.pkl">>
    /\ \E f \in 1..2 :
          SubSeq(p, 5, 7) = <<"625_both_labels_MWF" \o StrOf(f) \o ".pkl",
                              "625_prod_labels_MWF" \o StrOf(f) \o ".pkl",
                              "625_comp_labels_MWF" \o StrOf(f) \o ".pkl">>

\* C10: with CONFIG['pickle'] true, main unpacks the nine values that
\* build_design_matrices returns and writes the seven pickles in order:
\* once build_design_matrices has returned, main ends with all of them
\* written, and nothing is written before it has returned.
C10_AllPicklesWritten ==
    /\ pc # "return" => pickles = <<>>
    /\ (CONFIG_pickle /\ pc = "return"
        /\ main_pc \in {"return", "ValueError", "AssertionError"}) =>
          IsAllPickles(pickles)

(***************************************************************************)
(* tfs_pickling.adjust_label_onsets.                                       *)
(***************************************************************************)
notAdjust == <<buildVars, filterVars, dsVars, batchVars, foldVars, mainVars,
              windowVars, gptVars, collateVars>>

\* list.insert(i, x) for a position i >= 0.
insert(lst, i, x) ==
    SubSeq(lst, 1, Min(i, Len(lst))) \o <<x>>
    \o SubSeq(lst, Min(i, Len(lst)) + 1, Len(lst))

\* Mutant: the first element is removed.
pop_First(lst, i) == Tail(lst)

\* The list after list.pop(i) for i = -1, the last element removed.
pop(lst, i) == SubSeq(lst, 1, Len(lst) + i)

\* PorterStemmer().stem on the words of the model.
stem(word) == IF word = "runs" THEN "run" ELSE word

\* The labels of the model: (word, speaker, onset, offset, accuracy), the
\* word as the one-word list that ps.stem(*i[0]) unpacks.
LabelTuples ==
    {<< <<"runs">>, "Speaker1", 0, 1, 1 >>, << <<"run">>, "Speaker2", 1, 3, 1 >>}

\* The lists of at most n elements of U.
ListsUpTo(U, n) == UNION {[1..k -> U] : k \in 0..n}

\* Is s strictly increasing?
Increasing(s) == \A k \in 1..(Len(s) - 1) : s[k] < s[k + 1]

\* adjust_label_onsets is called with the stitch index of K conversations
\* and their K label lists.
InitAdjust ==
    /\ \E K \in 0..MaxStitch :
          /\ trimmed_stitch_index \in
                {e \in [1..K -> 1..MaxEnd] : Increasing(e)}
          /\ label_lists \in [1..K -> ListsUpTo(LabelTuples, MaxSubList)]
    /\ stitch_given = trimmed_stitch_index
    /\ adj_k = 0
    /\ new_labels = <<>>
    /\ labels_df = <<>>
    /\ adj_pc = "insert"

\* line 45
StitchInsert ==
    /\ adj_pc = "insert"
    /\ trimmed_stitch_index' = insert(trimmed_stitch_index, 0, 0)
    /\ adj_pc' = "pop"
    /\ UNCHANGED <<label_lists, stitch_given, adj_k, new_labels, labels_df>>
    /\ UNCHANGED notAdjust

\* line 46
StitchPop ==
    /\ adj_pc = "pop"
    /\ trimmed_stitch_index' = pop(trimmed_stitch_index, -1)
    /\ adj_pc' = "zip"
    /\ UNCHANGED <<label_lists, stitch_given, adj_k, new_labels, labels_df>>
    /\ UNCHANGED notAdjust

\* lines 51-52: the labels of one conversation moved by start.
modified_labels(start, sub_list) ==
    [j \in 1..Len(sub_list) |->
        <<stem(sub_list[j][1][1]), sub_list[j][2], sub_list[j][3] + start,
          sub_list[j][4] + start, sub_list[j][5]>>]

\* lines 50-53: one turn of the loop over zip(trimmed_stitch_index, labels),
\* which ends with the shorter of the two.
ZipNext ==
    /\ adj_pc = "zip"
    /\ IF adj_k < Min(Len(trimmed_stitch_index), Len(label_lists))
       THEN /\ adj_k' = adj_k + 1
            /\ new_labels' =
                  new_labels \o modified_labels(trimmed_stitch_index[adj_k + 1],
                                                label_lists[adj_k + 1])
            /\ UNCHANGED adj_pc
       ELSE /\ adj_pc' = "frame"
            /\ UNCHANGED <<adj_k, new_labels>>
    /\ UNCHANGED <<trimmed_stitch_index, label_lists, stitch_given, labels_df>>
    /\ UNCHANGED notAdjust

\* lines 55-58: the DataFrame of the new labels, a row a label.
DataFrame ==
    /\ adj_pc = "frame"
    /\ labels_df' = [j \in 1..Len(new_labels) |->
                        [word |-> new_labels[j][1],
                         speaker |-> new_labels[j][2],
                         onset |-> new_labels[j][3],
                         offset |-> new_labels[j][4],
                         accuracy |-> new_labels[j][5]]]
    /\ adj_pc' = "return"
    /\ UNCHANGED <<trimmed_stitch_index, label_lists, stitch_given, adj_k,
                   new_labels>>
    /\ UNCHANGED notAdjust

(***************************************************************************)
(* SpecAdjust: one call of adjust_label_onsets.                            *)
(***************************************************************************)
InitAdjustSpec ==
    /\ InitAdjust
    /\ IdleBuild /\ IdleFilter /\ IdleDs /\ IdleBatch /\ IdleFold
    /\ IdleMain /\ IdleWindow /\ IdleGpt /\ IdleCollate

NextAdjust ==
    \/ StitchInsert
    \/ StitchPop
    \/ ZipNext
    \/ DataFrame

SpecAdjust == InitAdjustSpec /\ [][NextAdjust]_vars

\* The number of labels of the conversations before conversation k.
RECURSIVE LabelsBefore(_)
LabelsBefore(k) ==
    IF k <= 1 THEN 0 ELSE LabelsBefore(k - 1) + Len(label_lists[k - 1])

\* The boundary offset e(k-1) of conversation k in the stitch index given.
BoundaryBefore(k) == IF k = 1 THEN 0 ELSE stitch_given[k - 1]

\* C12: the returned frame has one row per input label, in conversation
\* order then original order, and the row of a label of conversation k has
\* the label's onset and offset both moved by e(k-1) (0 for the first
\* conversation), so offset - onset is unchanged.
C12_OnsetsMovedByBoundary ==
    adj_pc = "return" =>
        /\ Len(labels_df) = LabelsBefore(Len(label_lists) + 1)
        /\ \A k \in 1..Len(label_lists) : \A j \in 1..Len(label_lists[k]) :
              LET row == labels_df[LabelsBefore(k) + j]
                  lab == label_lists[k][j]
              IN  /\ row.onset = lab[3] + BoundaryBefore(k)
                  /\ row.offset = lab[4] + BoundaryBefore(k)
                  /\ row.offset - row.onset = lab[4] - lab[3]
                  /\ row.speaker = lab[2]
                  /\ row.accuracy = lab[5]

\* C12 witness: two conversations with labels each, the second moved by a
\* boundary above 1.
C12_Witness ==
    /\ adj_pc = "return"
    /\ Len(label_lists) = 2
    /\ Len(label_lists[1]) = 2
    /\ Len(label_lists[2]) = 2
    /\ stitch_given[1] = 2
    /\ labels_df[3].onset = label_lists[2][1][3] + 2

(***************************************************************************)
(* tfs_gen_embeddings.window.                                              *)
(***************************************************************************)
notWindow == <<buildVars, filterVars, dsVars, batchVars, foldVars, mainVars,
               adjustVars, gptVars, collateVars>>

\* tuple(islice(it, n)): the first n elements that the iterator still has.
islice(iter, n) == SubSeq(iter, 1, Min(n, Len(iter)))

\* The iterator after islice(it, n) has taken its elements.
after_islice(iter, n) == SubSeq(iter, Min(n, Len(iter)) + 1, Len(iter))

\* Mutant: the first tuple is yielded only when it is full.
first_yield_Full(res, n) == Len(res) = n

\* line 22: is the first tuple yielded?
first_yield(res, n) == Len(res) <= n

\* result[1:] + (elem, )
slide(res, elem) == SubSeq(res, 2, Len(res)) \o <<elem>>

\* window(seq, n) is called.
InitWindow ==
    /\ seq \in ListsUpTo(1..MaxToken, MaxSeq)
    /\ n_width \in 0..MaxWidth
    /\ it = <<>>
    /\ result = <<>>
    /\ yielded = <<>>
    /\ w_pc = "start"

\* lines 20-23
WindowFirst ==
    /\ w_pc = "start"
    /\ result' = islice(seq, n_width)
    /\ it' = after_islice(seq, n_width)
    /\ yielded' = IF first_yield(result', n_width) THEN <<result'>> ELSE <<>>
    /\ w_pc' = "for"
    /\ UNCHANGED <<seq, n_width>>
    /\ UNCHANGED notWindow

\* lines 24-26: one more element, or the end of the generator.
WindowNext ==
    /\ w_pc = "for"
    /\ IF it # <<>>
       THEN /\ result' = slide(result, Head(it))
            /\ it' = Tail(it)
            /\ yielded' = Append(yielded, result')
            /\ UNCHANGED w_pc
       ELSE /\ w_pc' = "done"
            /\ UNCHANGED <<result, it, yielded>>
    /\ UNCHANGED <<seq, n_width>>
    /\ UNCHANGED notWindow

(***************************************************************************)
(* SpecWindow: one run of the generator window(seq, n) to its end.         *)
(***************************************************************************)
InitWindowSpec ==
    /\ InitWindow
    /\ IdleBuild /\ IdleFilter /\ IdleDs /\ IdleBatch /\ IdleFold
    /\ IdleMain /\ IdleAdjust /\ IdleGpt /\ IdleCollate

NextWindow ==
    \/ WindowFirst
    \/ WindowNext

SpecWindow == InitWindowSpec /\ [][NextWindow]_vars

\* The tuples (s[i], ..., s[i+n-1]) for i = 0 .. len(s) - n, in order.
FullWindows(s, n) ==
    [i \in 1..Max(0, Len(s) - n + 1) |-> SubSeq(s, i, i + n - 1)]

notGpt == <<buildVars, filterVars, dsVars, batchVars, foldVars, mainVars,
            adjustVars, windowVars, collateVars>>

\* The tuples window yields after the first one, for the elements the
\* iterator still has.
RECURSIVE Slides(_, _)
Slides(res, iter) ==
    IF iter = <<>> THEN <<>>
    ELSE <<slide(res, Head(iter))>>
         \o Slides(slide(res, Head(iter)), Tail(iter))

\* list(window(s, n))
window(s, n) ==
    (IF first_yield(islice(s, n), n) THEN <<islice(s, n)>> ELSE <<>>)
    \o Slides(islice(s, n), after_islice(s, n))

\* The numbers of tokens of a conversation: a few, and about WindowSize.
TokenCounts == (1..MaxShort) \cup ((WindowSize - 1)..(WindowSize + MaxExtra))

\* df[df.conversation_id == c]['token_id'].tolist() for a conversation of
\* t rows; a token is named by its position.
TokensOf(t) == [p \in 1..t |-> p]

\* model_output[-1][-1] for a batch of one window: the last layer's hidden
\* states, one row per position of the window; a row is named by the
\* token it stands at.
hidden_states(win) == win

\* Mutant: the first batch is handled like the later ones.
batch_rows_LastOnly(i, hid) == <<hid[Len(hid)]>>

\* lines 253-259: the first batch gives all its rows, a later one the row
\* of its last position ([:, -1, :]).
batch_rows(i, hid) == IF i = 0 THEN hid ELSE <<hid[Len(hid)]>>

\* np.concatenate(arrays, axis=1) of arrays of shape (1, rows, hidden).
RECURSIVE concatenate(_)
concatenate(arrays) ==
    IF arrays = <<>> THEN <<>> ELSE Head(arrays) \o concatenate(Tail(arrays))

\* df holds 1 to MaxDf conversations, each with at least one token row.
InitGpt ==
    /\ token_lists \in
          UNION {[1..c -> {TokensOf(t) : t \in TokenCounts}] : c \in 1..MaxDf}
    /\ conversation = 0
    /\ token_list = <<>>
    /\ sliding_windows = <<>>
    /\ data_dl = {}
    /\ batch_i = 0
    /\ concat_output = <<>>
    /\ extracted_embeddings = <<>>
    /\ final_embeddings = <<>>
    /\ g_pc = "for"

\* lines 235-247: the next conversation, its windows and its DataLoader,
\* or the end of the loop.
NextConversation ==
    /\ g_pc = "for"
    /\ IF conversation < Len(token_lists)
       THEN /\ conversation' = conversation + 1
            /\ token_list' = token_lists[conversation + 1]
            /\ sliding_windows' = window(token_list', WindowSize)
            /\ data_dl' = 1..Len(sliding_windows')
            /\ batch_i' = 0
            /\ concat_output' = <<>>
            /\ g_pc' = "batch"
       ELSE /\ g_pc' = "after_loop"
            /\ UNCHANGED <<conversation, token_list, sliding_windows, data_dl,
                           batch_i, concat_output>>
    /\ UNCHANGED <<token_lists, extracted_embeddings, final_embeddings>>
    /\ UNCHANGED notGpt

\* lines 248-259: the DataLoader (batch_size 1, shuffle=True) hands out the
\* windows one a batch, in any order.
NextBatchOfOne ==
    /\ g_pc = "batch"
    /\ data_dl # {}
    /\ \E w \in data_dl :
          /\ data_dl' = data_dl \ {w}
          /\ concat_output' =
                Append(concat_output,
                       batch_rows(batch_i, hidden_states(sliding_windows[w])))
    /\ batch_i' = batch_i + 1
    /\ UNCHANGED <<token_lists, conversation, token_list, sliding_windows,
                   extracted_embeddings, final_embeddings, g_pc>>
    /\ UNCHANGED notGpt

\* lines 261-264: np.concatenate raises ValueError on an empty list.
Extract ==
    /\ g_pc = "batch"
    /\ data_dl = {}
    /\ IF concat_output = <<>>
       THEN /\ g_pc' = "ValueError"
            /\ UNCHANGED <<extracted_embeddings, final_embeddings>>
       ELSE /\ extracted_embeddings' = concatenate(concat_output)
            /\ IF Len(extracted_embeddings') = Len(token_list)
               THEN /\ final_embeddings' =
                          Append(final_embeddings, extracted_embeddings')
                    /\ g_pc' = "for"
               ELSE /\ g_pc' = "AssertionError"
                    /\ UNCHANGED final_embeddings
    /\ UNCHANGED <<token_lists, conversation, token_list, sliding_windows,
                   data_dl, batch_i, concat_output>>
    /\ UNCHANGED notGpt

(***************************************************************************)
(* SpecGpt: the loop of build_context_for_gpt2 over the conversations.     *)
(***************************************************************************)
InitGptSpec ==
    /\ InitGpt
    /\ IdleBuild /\ IdleFilter /\ IdleDs /\ IdleBatch /\ IdleFold
    /\ IdleMain /\ IdleAdjust /\ IdleWindow /\ IdleCollate

NextGpt ==
    \/ NextConversation
    \/ NextBatchOfOne
    \/ Extract

SpecGpt == InitGptSpec /\ [][NextGpt]_vars

\* C15: for every conversation the extracted embeddings have one row per
\* token, so the assertion of line 263 holds for token lists shorter
\* than, as long as and longer than the window: the first batch processed
\* gives one row per token of its window, every later batch one row.
C15_OneRowPerToken ==
    /\ g_pc \notin {"AssertionError", "ValueError"}
    /\ \A c \in 1..Len(final_embeddings) :
          Len(final_embeddings[c]) = Len(token_lists[c])
    /\ \A k \in 1..Len(concat_output) :
          Len(concat_output[k]) =
             IF k = 1 THEN Min(Len(token_list), WindowSize) ELSE 1

\* C15 witness: the loop has ended for a conversation shorter than the
\* window and one longer than it by more than a token.
C15_Witness ==
    /\ g_pc = "after_loop"
    /\ Len(final_embeddings) = 2
    /\ Len(final_embeddings[1]) < WindowSize
    /\ Len(final_embeddings[2]) > WindowSize + 1
    /\ Len(concat_output) = Len(token_list) - WindowSize + 1

(***************************************************************************)
(* dl_utils.MyCollator.                                                    *)
(***************************************************************************)
notCollate == <<buildVars, filterVars, dsVars, batchVars, foldVars, mainVars,
                adjustVars, windowVars, gptVars>>

\* A vocabulary: token -> index, the indices 0 .. len(vocabulary) - 1.
vocabulary == ("<s>" :> 0) @@ ("hi" :> 1) @@ ("<pad>" :> 2)

\* len(self.vocabulary)
len_vocabulary == Cardinality(DOMAIN vocabulary)

\* The longest of the sequences.
RECURSIVE MaxLenOf(_)
MaxLenOf(seqs) ==
    IF seqs = <<>> THEN 0 ELSE Max(Len(Head(seqs)), MaxLenOf(Tail(seqs)))

\* pad_sequence(seqs, batch_first=True, padding_value=value): every
\* sequence filled at its end up to the longest one.
pad_sequence(seqs, value) ==
    [b \in 1..Len(seqs) |->
        [t \in 1..MaxLenOf(seqs) |->
            IF t <= Len(seqs[b]) THEN seqs[b][t] ELSE value]]

\* torch.zeros(B, L, V).scatter_(2, labels.unsqueeze(-1), 1): position
\* labels[b][t] of the vector at [b][t] is set to 1.
scatter_ones(labs, V) ==
    [b \in 1..Len(labs) |->
        [t \in 1..Len(labs[b]) |->
            [v \in 1..V |-> IF v - 1 = labs[b][t] THEN 1 ELSE 0]]]

\* trg[:, :-1, :]
trg_slice(rows) == [b \in 1..Len(rows) |-> PySlice(rows[b], 0, -1)]

\* Mutant: trg_y is cut like trg, without the shift by one.
trg_y_slice_NoShift(rows) == [b \in 1..Len(rows) |-> PySlice(rows[b], 0, -1)]

\* labels[:, 1:]
trg_y_slice(rows) ==
    [b \in 1..Len(rows) |-> PySlice(rows[b], 1, Len(rows[b]))]

\* torch.triu(torch.ones(n, n)) == 1
triu_ones(n) == [i \in 1..n |-> [j \in 1..n |-> j >= i]]

\* transpose(0, 1)
transpose(mat) == [i \in 1..Len(mat) |-> [j \in 1..Len(mat) |-> mat[j][i]]]

\* lines 101-103: -inf where the mask is 0, 0.0 where it is 1.
masked_fill(mat) ==
    [i \in 1..Len(mat) |->
        [j \in 1..Len(mat) |-> IF mat[i][j] THEN "0.0" ELSE "-inf"]]

\* labels.size(1) of a batch-first tensor of at least one row.
size1(rows) == Len(rows[1])

\* The collator is called on a batch of 1 to MaxBatch examples of a
\* dataset: a signal and a sequence of 1 to MaxLabelLen vocabulary
\* indices each.
InitCollate ==
    /\ pad_token \in DOMAIN vocabulary
    /\ \E B \in 1..MaxBatch :
          \E labs \in [1..B -> UNION {[1..l -> 0..(len_vocabulary - 1)] :
                                        l \in 1..MaxLabelLen}] :
             batch = [b \in 1..B |-> <<SignalOf(b, b), labs[b]>>]
    /\ src = <<>>
    /\ labels_padded = <<>>
    /\ trg = <<>>
    /\ trg_y = <<>>
    /\ pos_mask = <<>>
    /\ pad_mask = <<>>
    /\ c_pc = "src"

\* lines 73-75
PadSrc ==
    /\ c_pc = "src"
    /\ src' = pad_sequence([b \in 1..Len(batch) |-> batch[b][1]], <<0>>)
    /\ c_pc' = "labels"
    /\ UNCHANGED <<pad_token, batch, labels_padded, trg, trg_y, pos_mask,
                   pad_mask>>
    /\ UNCHANGED notCollate

\* lines 76-78
PadLabels ==
    /\ c_pc = "labels"
    /\ labels_padded' = pad_sequence([b \in 1..Len(batch) |-> batch[b][2]],
                                     vocabulary[pad_token])
    /\ c_pc' = "onehot"
    /\ UNCHANGED <<pad_token, batch, src, trg, trg_y, pos_mask, pad_mask>>
    /\ UNCHANGED notCollate

\* lines 79-81
OneHot ==
    /\ c_pc = "onehot"
    /\ trg' = scatter_ones(labels_padded, len_vocabulary)
    /\ c_pc' = "shift"
    /\ UNCHANGED <<pad_token, batch, src, labels_padded, trg_y, pos_mask,
                   pad_mask>>
    /\ UNCHANGED notCollate

\* line 82
ShiftTargets ==
    /\ c_pc = "shift"
    /\ trg' = trg_slice(trg)
    /\ trg_y' = trg_y_slice(labels_padded)
    /\ c_pc' = "masks"
    /\ UNCHANGED <<pad_token, batch, src, labels_padded, pos_mask, pad_mask>>
    /\ UNCHANGED notCollate

\* lines 84-86 and masks (lines 88-106)
Masks ==
    /\ c_pc = "masks"
    /\ pos_mask' = <<masked_fill(transpose(triu_ones(size1(trg_y))))>>
    /\ pad_mask' = [b \in 1..Len(trg_y) |->
                       [t \in 1..Len(trg_y[b]) |->
                           trg_y[b][t] = vocabulary[pad_token]]]
    /\ c_pc' = "return"
    /\ UNCHANGED <<pad_token, batch, src, labels_padded, trg, trg_y>>
    /\ UNCHANGED notCollate

(***************************************************************************)
(* SpecCollate: one call of MyCollator.__call__.                           *)
(***************************************************************************)
InitCollateSpec ==
    /\ InitCollate
    /\ IdleBuild /\ IdleFilter /\ IdleDs /\ IdleBatch /\ IdleFold
    /\ IdleMain /\ IdleAdjust /\ IdleWindow /\ IdleGpt

NextCollate ==
    \/ PadSrc
    \/ PadLabels
    \/ OneHot
    \/ ShiftTargets
    \/ Masks

SpecCollate == InitCollateSpec /\ [][NextCollate]_vars

\* The label at position t (from 1) of example b once padded.
PaddedLabel(b, t) ==
    IF t <= Len(batch[b][2]) THEN batch[b][2][t] ELSE vocabulary[pad_token]

\* The padded length L of the labels of the batch.
PaddedLen == MaxLenOf([b \in 1..Len(batch) |-> batch[b][2]])

\* C14: trg is the one-hot encoding of the padded labels without their
\* last position, trg_y the padded labels without their first, both of
\* length L - 1, so trg_y[b][t] is the label after the one trg[b][t]
\* encodes; short sequences are filled with the pad index, and pad_mask is
\* true exactly where trg_y holds that index.
C14_ShiftedTargets ==
    c_pc = "return" =>
        /\ Len(trg) = Len(batch) /\ Len(trg_y) = Len(batch)
        /\ Len(pad_mask) = Len(batch)
        /\ \A b \in 1..Len(batch) :
              /\ Len(trg[b]) = PaddedLen - 1
              /\ Len(trg_y[b]) = PaddedLen - 1
              /\ Len(pad_mask[b]) = PaddedLen - 1
              /\ \A t \in 1..(PaddedLen - 1) :
                    /\ \A v \in 0..(len_vocabulary - 1) :
                          trg[b][t][v + 1] =
                             IF v = PaddedLabel(b, t) THEN 1 ELSE 0
                    /\ trg_y[b][t] = PaddedLabel(b, t + 1)
                    /\ pad_mask[b][t] <=> trg_y[b][t] = vocabulary[pad_token]

\* C14 witness: a batch of a long and a short sequence is collated; the
\* short one is filled and masked, the long one holds no pad index.
C14_Witness ==
    /\ c_pc = "return"
    /\ Len(batch) = 2
    /\ Len(batch[1][2]) = 2 /\ Len(batch[2][2]) = 1
    /\ batch[1][2][1] # batch[1][2][2]
    /\ pad_mask[1][1] = FALSE
    /\ pad_mask[2][1] = TRUE

====
